---- MODULE Spec2Model ----
(***************************************************************************)
(* A model of src/chembl.rs: SourceChembl, an in-memory index of a         *)
(* tab-separated ChEMBL dump.  A string is a sequence of one-character     *)
(* strings, a line is a string without its line terminator, and a file is  *)
(* the sequence of lines that BufReader::lines() yields.                   *)
(***************************************************************************)
EXTENDS Integers, Sequences, FiniteSets, TLC

\* ------------------------------------------------------------------ bounds
\* Longest file, in lines, loaded under Spec.
MaxLines == 2
\* Largest store queried under SpecPairs and SpecQuery.
MaxRecords == 4
\* Width of usize in bits (64 on the usual targets), scaled down so that
\* every size argument can be enumerated.
UsizeBits == 4

RECURSIVE Pow2(_)
Pow2(n) == IF n = 0 THEN 1 ELSE 2 * Pow2(n - 1)

UsizeRange == Pow2(UsizeBits)

\* ----------------------------------------------------------------- strings
TAB == "\t"

\* The key removed by sanitize: the literal "chembl_id".
HEADER_KEY == <<"c", "h", "e", "m", "b", "l", "_", "i", "d">>

\* line.as_str().split('\t').collect::<Vec<&str>>(): the fields between the
\* tabs, empty ones included; the empty line gives one empty field.
RECURSIVE split_from(_, _, _, _)
split_from(line, i, done, cur) ==
    IF i > Len(line) THEN Append(done, cur)
    ELSE IF line[i] = TAB THEN split_from(line, i + 1, Append(done, cur), <<>>)
    ELSE split_from(line, i + 1, done, Append(cur, line[i]))

split(line) == split_from(line, 1, <<>>, <<>>)

\* ------------------------------------------------------------- EntryChembl
EntryChembl_new_nokey(v) ==
    [chembl_id |-> v[1], smiles |-> v[2], inchi |-> v[3], inchi_key |-> <<>>]

\* EntryChembl::new: fields 0..3 of the line, by position (v[1..4] here).
EntryChembl_new(v) ==
    [chembl_id |-> v[1], smiles |-> v[2], inchi |-> v[3], inchi_key |-> v[4]]

key_of_smiles(v) == v[2]

\* The key of a line's map entry: String::from(v[0]).
key_of(v) == v[1]

\* ----------------------------------------------------------------- HashMap
\* A HashMap is the function from its keys to their values.
EmptyMap == <<>>

insert_keep_first(d, k, e) ==
    [x \in (DOMAIN d) \cup {k} |-> IF x \in DOMAIN d THEN d[x] ELSE e]

\* HashMap::insert, as used by collect: a later value replaces an earlier one.
insert(d, k, e) ==
    [x \in (DOMAIN d) \cup {k} |-> IF x = k THEN e ELSE d[x]]

\* .collect() of the (key, entry) pairs into a HashMap, first to last.
RECURSIVE from_iter_into(_, _, _)
from_iter_into(d, pairs, i) ==
    IF i > Len(pairs) THEN d
    ELSE from_iter_into(insert(d, pairs[i][1], pairs[i][2]), pairs, i + 1)

from_iter(pairs) == from_iter_into(EmptyMap, pairs, 1)

clear_noop(d) == d

\* HashMap::clear.
clear(d) == EmptyMap

\* HashMap::remove.
remove(d, k) == [x \in (DOMAIN d) \ {k} |-> d[x]]

\* The orders in which a HashMap with the keys S can be traversed: the order
\* is arbitrary, and keys(), values() and iter() of a map that is not
\* modified in between follow the same one.
Orders(S) ==
    {o \in [1..Cardinality(S) -> S] : \A i, j \in DOMAIN o : o[i] = o[j] => i = j}

\* HashMap::keys, along the traversal ord.
keys(d, ord) == ord

values_rev(d, ord) == [i \in 1..Len(ord) |-> d[ord[Len(ord) + 1 - i]]]

\* HashMap::values, along the traversal ord.
values(d, ord) == [i \in 1..Len(ord) |-> d[ord[i]]]

\* ------------------------------------------------------------ SourceChembl
VARIABLES
    data,      \* self.data: the HashMap of the store
    status,    \* "ok" while the program runs, else the panic that ended it
    file,      \* history: the lines of the file of the last load call
    nloads,    \* history: load calls so far (0, 1, or 2 for "two or more")
    prev,      \* history: what the last load call found before it started
    ret        \* the value returned by the last query since the last load

vars == <<data, status, file, nloads, prev, ret>>

NoRet == [op |-> "none", size |-> 0, value |-> <<>>]

sanitize_noop(d) == d

\* SourceChembl::sanitize.
sanitize(d) == remove(d, HEADER_KEY)

\* One line's closure in load: the (key, entry) pair of the line.
parse_line(line) ==
    LET v == split(line) IN <<key_of(v), EntryChembl_new(v)>>

\* The lines at which load panics: the read that fails (l.unwrap()), and
\* every line with fewer than 4 fields (v[1], v[2] or v[3] out of bounds).
\* errAt = 0 means that no read fails.
panic_lines(lines, errAt) ==
    {i \in 1..Len(lines) : i = errAt \/ Len(split(lines[i])) < 4}

Min(S) == CHOOSE x \in S : \A y \in S : x <= y

load_extend(self, exists, lines, errAt) ==
    IF ~exists THEN [data |-> self, status |-> "panic_open"]
    ELSE IF panic_lines(lines, errAt) # {}
    THEN [data |-> self,
          status |-> IF Min(panic_lines(lines, errAt)) = errAt
                     THEN "panic_read" ELSE "panic_index"]
    ELSE [data |-> sanitize(from_iter_into(self,
                       [i \in 1..Len(lines) |-> parse_line(lines[i])], 1)),
          status |-> "ok"]

\* SourceChembl::load on a path: exists says whether File::open succeeds,
\* lines is what the file holds, errAt the line whose read fails (0: none).
\* The result is the store at the return or at the panic.
load(self, exists, lines, errAt) ==
    IF ~exists THEN [data |-> clear(self), status |-> "panic_open"]
    ELSE IF panic_lines(lines, errAt) # {}
    THEN [data |-> clear(self),
          status |-> IF Min(panic_lines(lines, errAt)) = errAt
                     THEN "panic_read" ELSE "panic_index"]
    ELSE [data |-> sanitize(from_iter(
                       [i \in 1..Len(lines) |-> parse_line(lines[i])])),
          status |-> "ok"]

\* SourceChembl::get: <<entry>> for Some(entry), <<>> for None.
get(d, id) == IF id \in DOMAIN d THEN <<d[id]>> ELSE <<>>

\* SourceChembl::len.
len(d) == Cardinality(DOMAIN d)

\* SourceChembl::get_smiles_id_pairs: <<smiles, ids>>.
get_smiles_id_pairs(d, ord) ==
    << [i \in 1..Len(ord) |-> values(d, ord)[i].smiles], keys(d, ord) >>

\* size * 2 in usize: with overflow checks the multiplication panics, and
\* without them it wraps.
overflows(size) == size * 2 >= UsizeRange

mul2(size) == (size * 2) % UsizeRange

\* SourceChembl::choices once size * 2 is computed: draws[i] is the i-th
\* rng.gen_range(0..len), marks[i] whether it is <= size * 2, and the
\* result the first size marked values of the traversal.
choices(d, size, draws, ord) ==
    LET n == len(d)
        marks == [i \in 1..n |-> draws[i] <= mul2(size)]
        marked == SelectSeq([i \in 1..n |-> i], LAMBDA i : marks[i])
        taken == IF Len(marked) <= size THEN marked ELSE SubSeq(marked, 1, size)
    IN  [j \in 1..Len(taken) |-> values(d, ord)[taken[j]]]

\* ------------------------------------------------------------------ inputs
join(fields) ==
    LET F[i \in 1..Len(fields)] ==
            IF i = 1 THEN fields[1] ELSE F[i - 1] \o <<TAB>> \o fields[i]
    IN  F[Len(fields)]

\* The lines of the files loaded under Spec.
Lines ==
    { join(<< <<"A">>, <<"s">>, <<"i">>, <<"k">> >>),
      join(<< <<"A">>, <<"t">>, <<"j">>, <<"l">> >>),
      join(<< <<"B">>, <<"s">>, <<"i">>, <<"k">>, <<"x">> >>),
      join(<< HEADER_KEY, <<"s">>, <<"i">>, <<"k">> >>),
      join(<< <<"C">>, <<>>, <<"i">>, <<"k">> >>),
      join(<< <<"B">>, <<"s">>, <<"i">> >>),
      <<>> }

SeqsUpTo(S, n) == UNION {[1..k -> S] : k \in 0..n}

Files == SeqsUpTo(Lines, MaxLines)

\* The first fields of lines.
KeysOf(lines) == {split(lines[i])[1] : i \in 1..Len(lines)}

\* The n-th line of the files sampled under SpecPairs and SpecQuery: ids "A", "AA", ...,
\* with the SMILES "C", "CC", ...
Repeat(c, n) == [i \in 1..n |-> c]

QLine(n) == join(<< Repeat("A", n), Repeat("C", n), <<"i">>, <<"k">> >>)

QFiles == {[i \in 1..n |-> QLine(i)] : n \in 0..MaxRecords}

\* ----------------------------------------------------------------- actions
\* SourceChembl { data: DataChembl::new() }, before new calls load.
Init ==
    /\ data = EmptyMap
    /\ status = "ok"
    /\ file = <<>>
    /\ nloads = 0
    /\ prev = [n |-> 0, ids |-> {}]
    /\ ret = NoRet

\* A call of load (the one in new, or a later one).
Load(exists, lines, errAt) ==
    /\ status = "ok"
    /\ \E r \in {load(data, exists, lines, errAt)} :
        /\ data' = r.data
        /\ status' = r.status
    /\ file' = lines
    /\ nloads' = IF nloads = 0 THEN 1 ELSE 2
    /\ prev' = [n |-> len(data), ids |-> KeysOf(file)]
    /\ ret' = NoRet

\* load of a file that is opened and read to its end.
LoadFile == \E lines \in Files : Load(TRUE, lines, 0)

\* load of a file one of whose reads fails: lines are the lines up to the
\* failing one, which is as far as load reads.
LoadReadError ==
    \E lines \in Files :
        /\ lines # <<>>
        /\ Load(TRUE, lines, Len(lines))

\* load of a path that cannot be opened.
LoadMissing == Load(FALSE, <<>>, 0)

Next == LoadFile \/ LoadReadError \/ LoadMissing

Spec == Init /\ [][Next]_vars

\* load of one of the files that are sampled.
LoadQ == \E lines \in QFiles : Load(TRUE, lines, 0)

\* A call of get_smiles_id_pairs on a loaded store.
Pairs ==
    /\ status = "ok"
    /\ nloads > 0
    /\ ret = NoRet
    /\ \E ord \in Orders(DOMAIN data) :
           ret' = [op |-> "pairs", size |-> 0,
                   value |-> get_smiles_id_pairs(data, ord)]
    /\ UNCHANGED <<data, status, file, nloads, prev>>

NextPairs == LoadQ \/ Pairs

SpecPairs == Init /\ [][NextPairs]_vars

\* A call of choices(size) on a loaded store that returns.
Choices ==
    /\ status = "ok"
    /\ nloads > 0
    /\ ret = NoRet
    /\ \E size \in 0..(UsizeRange - 1) :
        /\ \E ord \in Orders(DOMAIN data) :
            \E draws \in [1..len(data) -> 0..(len(data) - 1)] :
               ret' = [op |-> "choices", size |-> size,
                       value |-> choices(data, size, draws, ord)]
    /\ UNCHANGED <<data, status, file, nloads, prev>>

\* A call of choices(size) in a build with overflow checks, size * 2
\* overflowing.
ChoicesOverflow ==
    /\ status = "ok"
    /\ nloads > 0
    /\ ret = NoRet
    /\ \E size \in 0..(UsizeRange - 1) :
        /\ overflows(size)
        /\ status' = "panic_overflow"
    /\ UNCHANGED <<data, file, nloads, prev, ret>>

NextQuery == LoadQ \/ Choices \/ ChoicesOverflow

SpecQuery == Init /\ [][NextQuery]_vars

\* ------------------------------------------------------------ properties
\* A load call has returned: the store is the one it built.
Loaded == status = "ok" /\ nloads > 0

\* A load call has panicked.
LoadPanicked == status \in {"panic_open", "panic_read", "panic_index"}

\* Field j (from 0) of line i of the file of the last load call.
Field(i, j) == split(file[i])[j + 1]

\* The lines of that file whose first field is id.
LinesOf(id) == {i \in 1..Len(file) : Field(i, 0) = id}

Max(S) == CHOOSE x \in S : \A y \in S : y <= x

\* Ids to look up: every first field of a line, and one that no line has.
ProbeIds == {split(l)[1] : l \in Lines} \cup {<<"Z">>}

\* Every line of the file has 4 fields or more.
WellFormed == \A i \in 1..Len(file) : Len(split(file[i])) >= 4

\* The first fields of the file are pairwise distinct and none is the
\* header key.
DistinctIds ==
    /\ \A i, j \in 1..Len(file) : Field(i, 0) = Field(j, 0) => i = j
    /\ \A i \in 1..Len(file) : Field(i, 0) # HEADER_KEY

NonEmpty(e) ==
    /\ e.chembl_id # <<>>
    /\ e.smiles # <<>>
    /\ e.inchi # <<>>
    /\ e.inchi_key # <<>>

\* C1: choices(k) with k <= len() returns exactly k records, whatever the
\* draws are.
C1_ExactlyK ==
    (ret.op = "choices" /\ ret.size <= len(data))
        => Len(ret.value) = ret.size

\* C2: choices(k) with k > len() returns all len() records of the store,
\* each exactly once, whatever the draws are.
C2_AllRecords ==
    (ret.op = "choices" /\ ret.size > len(data))
        => /\ Len(ret.value) = len(data)
           /\ {ret.value[i] : i \in 1..Len(ret.value)} = {data[id] : id \in DOMAIN data}

\* C3: after a load of a file of N lines of 4 fields or more, with pairwise
\* distinct first fields none of which is "chembl_id", len() is N.
C3_LenIsLineCount ==
    (Loaded /\ WellFormed /\ DistinctIds) => len(data) = Len(file)

C3_Witness ==
    /\ Loaded /\ WellFormed /\ DistinctIds
    /\ Len(file) = MaxLines
    /\ len(data) = MaxLines

\* C4: after a load, for every id other than "chembl_id", get(id) is the
\* record made of fields 0..3 of the last line whose field 0 is id, and
\* none if no line has that field 0.
C4_LastLineWins ==
    Loaded =>
        \A id \in ProbeIds \ {HEADER_KEY} :
            IF LinesOf(id) = {} THEN get(data, id) = <<>>
            ELSE /\ Len(get(data, id)) = 1
                 /\ get(data, id)[1].chembl_id = Field(Max(LinesOf(id)), 0)
                 /\ get(data, id)[1].smiles = Field(Max(LinesOf(id)), 1)
                 /\ get(data, id)[1].inchi = Field(Max(LinesOf(id)), 2)
                 /\ get(data, id)[1].inchi_key = Field(Max(LinesOf(id)), 3)

C4_Witness ==
    /\ Loaded
    /\ Cardinality(LinesOf(<<"A">>)) = 2
    /\ Field(1, 1) # Field(2, 1)
    /\ get(data, <<"A">>)[1].smiles = Field(2, 1)
    /\ get(data, <<"Z">>) = <<>>

\* C5: after a load of file B that follows a load of file A, get(id) is none
\* for every id of A that is not in B, and the store holds what B alone
\* gives: one record per first field of B other than "chembl_id", made of
\* the last line with that first field.
C5_ReloadReplaces ==
    (Loaded /\ nloads = 2) =>
        /\ \A id \in prev.ids \ KeysOf(file) : get(data, id) = <<>>
        /\ DOMAIN data = KeysOf(file) \ {HEADER_KEY}
        /\ \A id \in DOMAIN data :
               /\ data[id].chembl_id = id
               /\ data[id].smiles = Field(Max(LinesOf(id)), 1)
               /\ data[id].inchi = Field(Max(LinesOf(id)), 2)
               /\ data[id].inchi_key = Field(Max(LinesOf(id)), 3)

C5_Witness ==
    /\ Loaded /\ nloads = 2
    /\ prev.n > 0
    /\ <<"A">> \in prev.ids \ KeysOf(file)
    /\ len(data) > 0

\* C6: get_smiles_id_pairs() returns two sequences of length len(), and for
\* every index i, get(ids[i]) is a record whose smiles is smiles[i].
C6_PairsAligned ==
    ret.op = "pairs" =>
        /\ Len(ret.value[1]) = len(data)
        /\ Len(ret.value[2]) = len(data)
        /\ \A i \in 1..len(data) :
               /\ Len(get(data, ret.value[2][i])) = 1
               /\ get(data, ret.value[2][i])[1].smiles = ret.value[1][i]

C6_Witness ==
    /\ ret.op = "pairs"
    /\ len(data) = MaxRecords
    /\ \A i, j \in 1..Len(ret.value[1]) :
           ret.value[1][i] = ret.value[1][j] => i = j

\* C7: a load that fails ends with an error value handed to its caller (an
\* I/O error, a ParseError) and never with a panic.
C7_NoPanic == ~LoadPanicked

\* C8: every stored record has its four fields non-empty, whatever the
\* lines of 4 fields or more of the file are.
C8_FieldsNonEmpty == \A id \in DOMAIN data : NonEmpty(data[id])

\* C8, amended: every stored record has its four fields non-empty if the
\* first four fields of every line of the file are non-empty.
C8_FieldsNonEmptyIfLinesAre ==
    (WellFormed /\ \A i \in 1..Len(file) : \A j \in 0..3 : Field(i, j) # <<>>)
        => \A id \in DOMAIN data : NonEmpty(data[id])

C8_Witness ==
    /\ Loaded /\ WellFormed
    /\ \A i \in 1..Len(file) : \A j \in 0..3 : Field(i, j) # <<>>
    /\ len(data) = MaxLines

\* C9: the map never has the key "chembl_id": get("chembl_id") is none, and
\* after a load len() counts the first fields of the file other than it.
C9_NoHeaderKey ==
    /\ HEADER_KEY \notin DOMAIN data
    /\ get(data, HEADER_KEY) = <<>>
    /\ Loaded => len(data) = Cardinality(KeysOf(file) \ {HEADER_KEY})

C9_Witness ==
    /\ Loaded
    /\ Len(file) = MaxLines
    /\ Field(1, 0) # HEADER_KEY
    /\ Field(Len(file), 0) = HEADER_KEY
    /\ len(data) = 1

\* C10: at the panic of a load, the store holds no record: neither those it
\* held before the call nor any of the file.
C10_EmptyAtPanic == LoadPanicked => (data = EmptyMap /\ len(data) = 0)

C10_Witness ==
    /\ status = "panic_index"
    /\ prev.n > 0
    /\ Len(file) > 1
    /\ Len(split(file[1])) >= 4

====
